---- MODULE Spec2Model ----
(***************************************************************************)
(* Model of vulkano/src/descriptor_set/vk_objects.rs: descriptor sets,     *)
(* their write/update engine and the lifetime of the objects they share.   *)
(***************************************************************************)
EXTENDS Integers, Sequences, FiniteSets, TLC

(***************************************************************************)
(* Bounds of the model.                                                    *)
(***************************************************************************)
\* total number of DescriptorWrite entries submitted to one set
MaxEntries == 2
\* total number of DescriptorWrite entries submitted to one set under Spec
LifeEntries == 1
\* number of descriptor set objects the program may create
MaxSets == 2
\* total number of DescriptorWrite entries submitted to one set under SpecBatch
BatchEntries == 4
\* number of descriptor set layouts handed to one PipelineLayout::new
MaxSetLayouts == 2

(***************************************************************************)
(* The collaborators: devices, pools, resources (other files of the crate).*)
(***************************************************************************)
Devices == {1, 2}
Pools == {1, 2}
Layouts == {1, 2}
\* slots of the pipeline layouts the program may create
PipelineLayoutIds == {1}
SetIds == 1 .. MaxSets

\* the device each pool / layout is created from
PoolDevice(p) == p
LayoutDevice(l) == l

Null == 0

Buffers == {1, 2}
Samplers == {1, 2}
ImageViews == {1, 2, 3}

\* usage capabilities of the resources: buffer 1 is a uniform buffer, buffer 2
\* a storage buffer; view 1 is sampled, view 2 storage, view 3 input attachment
usage_uniform_buffer(b) == b = 1
usage_storage_buffer(b) == b = 2
usage_sampled(v) == v = 1
usage_storage(v) == v = 2
usage_input_attachment(v) == v = 3

\* VulkanObject::internal_object of the resources: distinct non-null handles
BufferHandle(b) == 100 + b
SamplerHandle(s) == 200 + s
ImageViewHandle(v) == 300 + v
PoolHandle(p) == 400 + p
LayoutHandle(l) == 600 + l
LayoutHandles == {LayoutHandle(l) : l \in Layouts}
\* a pipeline layout handle of the driver's own numbering
PipelineLayoutHandle(pl) == 700 + pl

\* the handle the driver gives to the set of each slot: a fresh one each time
SetHandle(s) == 500 + s
SetHandles == {SetHandle(s) : s \in 1 .. MaxSets}

\* image layouts (General, ShaderReadOnlyOptimal) as their u32 values
ImageLayouts == {5}

BufferKinds == {"UniformBuffer", "DynamicUniformBuffer", "StorageBuffer", "DynamicStorageBuffer"}
ImageKinds == {"Sampler", "CombinedImageSampler", "SampledImage", "StorageImage", "InputAttachment"}
Kinds == BufferKinds \cup ImageKinds

\* DescriptorBind::ty() as u32: the native descriptor type of a kind
ty(kind) ==
  CASE kind = "Sampler" -> 0
    [] kind = "CombinedImageSampler" -> 1
    [] kind = "SampledImage" -> 2
    [] kind = "StorageImage" -> 3
    [] kind = "UniformBuffer" -> 6
    [] kind = "StorageBuffer" -> 7
    [] kind = "DynamicUniformBuffer" -> 8
    [] kind = "DynamicStorageBuffer" -> 9
    [] kind = "InputAttachment" -> 10

(***************************************************************************)
(* DescriptorBind and DescriptorWrite values.  A field a kind does not     *)
(* carry is Null.                                                          *)
(***************************************************************************)
Bind(kind, buffer, offset, size, sampler, image, layout) ==
  [kind |-> kind, buffer |-> buffer, offset |-> offset, size |-> size,
   sampler |-> sampler, image |-> image, layout |-> layout]

BufferBinds ==
  {Bind(k, b, 0, 64, Null, Null, Null) : k \in BufferKinds, b \in Buffers}

ImageBinds ==
  {Bind("Sampler", Null, 0, 0, s, Null, Null) : s \in Samplers}
  \cup {Bind("CombinedImageSampler", Null, 0, 0, 1, v, l) : v \in ImageViews, l \in ImageLayouts}
  \cup {Bind(k, Null, 0, 0, Null, v, l) :
          k \in {"SampledImage", "StorageImage", "InputAttachment"},
          v \in ImageViews, l \in ImageLayouts}

Binds == BufferBinds \cup ImageBinds

\* the (binding, array element) pairs a write may name: binding 0 is an array
\* whose second element is written, binding 1 a single descriptor
Positions == {<<0, 1>>, <<1, 0>>}

DescriptorWrites ==
  {[binding |-> p[1], array_element |-> p[2], content |-> c] : p \in Positions, c \in Binds}

\* the write batches of exactly n entries drawn from W
Batches(W, n) == [1 .. n -> W]

(***************************************************************************)
(* unchecked_write, first pass: the buffer descriptors.  The closure runs  *)
(* on the writes in order; a failed assert! leaves the pushes made so far. *)
(***************************************************************************)
\* a mutant of BufferCheck: the storage kinds ask for the uniform capability too
BufferCheck_uniform_only(content) == usage_uniform_buffer(content.buffer)

BufferCheck(content) ==
  IF content.kind \in {"UniformBuffer", "DynamicUniformBuffer"}
  THEN usage_uniform_buffer(content.buffer)
  ELSE usage_storage_buffer(content.buffer)

\* a mutant of DescriptorBufferInfo: offset and range are exchanged
DescriptorBufferInfo_swapped(content) ==
  [buffer |-> BufferHandle(content.buffer), offset |-> content.size, range |-> content.offset]

DescriptorBufferInfo(content) ==
  [buffer |-> BufferHandle(content.buffer), offset |-> content.offset, range |-> content.size]

\* a mutant of buffer_pass: the buffers are not recorded in the set
RECURSIVE buffer_pass_no_push(_, _, _)
buffer_pass_no_push(write, i, acc) ==
  IF i > Len(write) THEN acc
  ELSE LET content == write[i].content
       IN  IF content.kind \notin BufferKinds THEN buffer_pass_no_push(write, i + 1, acc)
           ELSE IF ~BufferCheck(content) THEN [acc EXCEPT !.panic = TRUE]
           ELSE buffer_pass_no_push(write, i + 1,
                  [acc EXCEPT !.buffer_descriptors = Append(@, DescriptorBufferInfo(content))])

\* a mutant of buffer_pass: a buffer the set already holds is not recorded again
RECURSIVE buffer_pass_dedup(_, _, _)
buffer_pass_dedup(write, i, acc) ==
  IF i > Len(write) THEN acc
  ELSE LET content == write[i].content
       IN  IF content.kind \notin BufferKinds THEN buffer_pass_dedup(write, i + 1, acc)
           ELSE IF ~BufferCheck(content) THEN [acc EXCEPT !.panic = TRUE]
           ELSE buffer_pass_dedup(write, i + 1,
                  [acc EXCEPT !.resources_buffers =
                                IF \E k \in DOMAIN @ : @[k] = content.buffer
                                THEN @ ELSE Append(@, content.buffer),
                              !.buffer_descriptors = Append(@, DescriptorBufferInfo(content))])

RECURSIVE buffer_pass(_, _, _)
buffer_pass(write, i, acc) ==
  IF i > Len(write) THEN acc
  ELSE LET content == write[i].content
       IN  IF content.kind \notin BufferKinds THEN buffer_pass(write, i + 1, acc)
           ELSE IF ~BufferCheck(content) THEN [acc EXCEPT !.panic = TRUE]
           ELSE buffer_pass(write, i + 1,
                  [acc EXCEPT !.resources_buffers = Append(@, content.buffer),
                              !.buffer_descriptors = Append(@, DescriptorBufferInfo(content))])

(***************************************************************************)
(* unchecked_write, second pass: the image descriptors.                    *)
(***************************************************************************)
\* a mutant of ImageCheck: an input attachment asks for the storage capability
ImageCheck_input_as_storage(content) ==
  CASE content.kind = "Sampler" -> TRUE
    [] content.kind \in {"CombinedImageSampler", "SampledImage"} -> usage_sampled(content.image)
    [] content.kind = "StorageImage" -> usage_storage(content.image)
    [] content.kind = "InputAttachment" -> usage_storage(content.image)

ImageCheck(content) ==
  CASE content.kind = "Sampler" -> TRUE
    [] content.kind \in {"CombinedImageSampler", "SampledImage"} -> usage_sampled(content.image)
    [] content.kind = "StorageImage" -> usage_storage(content.image)
    [] content.kind = "InputAttachment" -> usage_input_attachment(content.image)

DescriptorImageInfo(content) ==
  CASE content.kind = "Sampler" ->
         [sampler |-> SamplerHandle(content.sampler), imageView |-> 0, imageLayout |-> 0]
    [] content.kind = "CombinedImageSampler" ->
         [sampler |-> SamplerHandle(content.sampler),
          imageView |-> ImageViewHandle(content.image), imageLayout |-> content.layout]
    [] content.kind = "StorageImage" ->
         [sampler |-> 0, imageView |-> ImageViewHandle(content.image),
          imageLayout |-> content.layout]
    [] content.kind = "SampledImage" ->
         [sampler |-> 0, imageView |-> ImageViewHandle(content.image),
          imageLayout |-> content.layout]
    [] content.kind = "InputAttachment" ->
         [sampler |-> 0, imageView |-> ImageViewHandle(content.image),
          imageLayout |-> content.layout]

\* a mutant of PushSampler: a combined image sampler does not record its sampler
PushSampler_not_combined(content, samplers) ==
  CASE content.kind = "Sampler" -> Append(samplers, content.sampler)
    [] OTHER -> samplers

PushSampler(content, samplers) ==
  CASE content.kind = "Sampler" -> Append(samplers, content.sampler)
    [] content.kind = "CombinedImageSampler" -> Append(samplers, content.sampler)
    [] OTHER -> samplers

\* a mutant of PushImageView: a sampled image does not record its image view
PushImageView_not_sampled(content, views) ==
  CASE content.kind = "CombinedImageSampler" -> Append(views, content.image)
    [] content.kind = "StorageImage" -> Append(views, content.image)
    [] content.kind = "InputAttachment" -> Append(views, content.image)
    [] OTHER -> views

PushImageView(content, views) ==
  CASE content.kind = "CombinedImageSampler" -> Append(views, content.image)
    [] content.kind = "StorageImage" -> Append(views, content.image)
    [] content.kind = "SampledImage" -> Append(views, content.image)
    [] content.kind = "InputAttachment" -> Append(views, content.image)
    [] OTHER -> views

RECURSIVE image_pass(_, _, _)
image_pass(write, i, acc) ==
  IF i > Len(write) THEN acc
  ELSE LET content == write[i].content
       IN  IF content.kind \notin ImageKinds THEN image_pass(write, i + 1, acc)
           ELSE IF ~ImageCheck(content) THEN [acc EXCEPT !.panic = TRUE]
           ELSE image_pass(write, i + 1,
                  [acc EXCEPT !.resources_samplers = PushSampler(content, @),
                              !.resources_image_views = PushImageView(content, @),
                              !.image_descriptors = Append(@, DescriptorImageInfo(content))])

(***************************************************************************)
(* unchecked_write, third pass: one WriteDescriptorSet per write.  A       *)
(* pointer into a payload array is the array's name and a 0-based offset.  *)
(***************************************************************************)
Ptr(arr, off) == [arr |-> arr, off |-> off]
NullPtr == Ptr("null", 0)

\* a mutant of WriteDescriptorSet: binding and array element are exchanged
WriteDescriptorSet_swapped(self_set, w, image_info, buffer_info) ==
  [dstSet |-> self_set,
   dstBinding |-> w.array_element,
   dstArrayElement |-> w.binding,
   descriptorCount |-> 1,
   descriptorType |-> ty(w.content.kind),
   pImageInfo |-> image_info,
   pBufferInfo |-> buffer_info,
   pTexelBufferView |-> NullPtr]

WriteDescriptorSet(self_set, w, image_info, buffer_info) ==
  [dstSet |-> self_set,
   dstBinding |-> w.binding,
   dstArrayElement |-> w.array_element,
   descriptorCount |-> 1,
   descriptorType |-> ty(w.content.kind),
   pImageInfo |-> image_info,
   pBufferInfo |-> buffer_info,
   pTexelBufferView |-> NullPtr]

RECURSIVE vk_writes_pass(_, _, _, _)
vk_writes_pass(write, i, self_set, acc) ==
  IF i > Len(write) THEN acc
  ELSE LET w == write[i]
       IN  IF w.content.kind \in ImageKinds
           THEN vk_writes_pass(write, i + 1, self_set,
                  [acc EXCEPT !.next_image_desc = @ + 1,
                              !.vk_writes = Append(@, WriteDescriptorSet(self_set, w,
                                               Ptr("image_descriptors", acc.next_image_desc), NullPtr))])
           ELSE vk_writes_pass(write, i + 1, self_set,
                  [acc EXCEPT !.next_buffer_desc = @ + 1,
                              !.vk_writes = Append(@, WriteDescriptorSet(self_set, w,
                                               NullPtr, Ptr("buffer_descriptors", acc.next_buffer_desc)))])

(***************************************************************************)
(* The state.                                                              *)
(*   sets          the DescriptorSet objects, by slot: a slot is one call  *)
(*                 of new or uninitialized and the set it returned, if any *)
(*   pool_strong   strong count of each Arc<DescriptorPool>                *)
(*   layout_strong strong count of each Arc<DescriptorSetLayout>           *)
(*   user_pools, user_layouts  the pools / layouts the caller still owns   *)
(*   descriptors   the driver's content of each native set, by handle      *)
(*   calls         the native calls issued by the last operation, in order *)
(*   last          the last operation, its input and its outcome           *)
(*   allocs, frees native sets handed out / freed so far, by handle        *)
(*   entries       DescriptorWrite entries submitted to each set so far    *)
(*   applied       the writes of the batches that completed, by set        *)
(*   aborted       whether a batch written to the set has aborted          *)
(*   layouts       the DescriptorSetLayout objects, by slot                *)
(*   pipeline_layouts  the PipelineLayout objects, by slot                 *)
(*   layout_created    the handles CreateDescriptorSetLayout has returned  *)
(*   layout_destroys   DestroyDescriptorSetLayout calls so far, by handle  *)
(***************************************************************************)
VARIABLES sets, pool_strong, layout_strong, user_pools, user_layouts,
          descriptors, calls, last, allocs, frees, entries, applied, aborted,
          layouts, pipeline_layouts, layout_created, layout_destroys

vars == <<sets, pool_strong, layout_strong, user_pools, user_layouts,
          descriptors, calls, last, allocs, frees, entries, applied, aborted,
          layouts, pipeline_layouts, layout_created, layout_destroys>>

\* the handles a native destroy-descriptor-set-layout call may be handed
DestroyedHandles ==
  LayoutHandles \cup {PipelineLayoutHandle(pl) : pl \in PipelineLayoutIds}

NoSet ==
  [status |-> "none", set |-> Null, pool |-> Null, layout |-> Null,
   resources_samplers |-> <<>>, resources_image_views |-> <<>>, resources_buffers |-> <<>>]

\* a descriptor of a native set that no update has written
Unwritten ==
  [written |-> FALSE, descriptorType |-> 0, buffer |-> Null, offset |-> 0, range |-> 0,
   sampler |-> Null, imageView |-> Null, imageLayout |-> 0]

NoOp ==
  [op |-> "none", s |-> 0, pool |-> Null, layout |-> Null, write |-> <<>>, result |-> "none",
   pl |-> 0, arg |-> <<>>]

NoLayout == [status |-> "none", layout |-> Null, device |-> Null, description |-> <<>>]

NoPipelineLayout == [status |-> "none", device |-> Null, layout |-> Null, layouts |-> <<>>]

\* the schema entries (DescriptorDesc) that layout descriptions are made of
UniformBufferDesc ==
  [binding |-> 0, ty |-> "UniformBuffer", array_count |-> 2, stages |-> {"vertex"}]
CombinedImageSamplerDesc ==
  [binding |-> 1, ty |-> "CombinedImageSampler", array_count |-> 1,
   stages |-> {"vertex", "fragment"}]

\* description.descriptors() of the descriptions a layout may be created with
Descriptions ==
  {<<>>, <<UniformBufferDesc>>, <<UniformBufferDesc, CombinedImageSamplerDesc>>,
   <<CombinedImageSamplerDesc, UniformBufferDesc>>}

\* the layout that exists when Spec, SpecWrite and SpecBatch start
InitialLayout ==
  [status |-> "live", layout |-> LayoutHandle(1), device |-> LayoutDevice(1),
   description |-> <<UniformBufferDesc, CombinedImageSamplerDesc>>]

State ==
  [sets |-> sets, pool_strong |-> pool_strong, layout_strong |-> layout_strong,
   descriptors |-> descriptors, calls |-> <<>>, result |-> "none",
   entries |-> entries, applied |-> applied, aborted |-> aborted,
   layouts |-> layouts, pipeline_layouts |-> pipeline_layouts]

Init ==
  /\ sets = [s \in SetIds |-> NoSet]
  /\ pool_strong = [p \in Pools |-> 1]
  /\ layout_strong = [l \in Layouts |-> IF l = 1 THEN 1 ELSE 0]
  /\ user_pools = Pools
  /\ user_layouts = {1}
  /\ descriptors = [h \in SetHandles |-> [p \in Positions |-> Unwritten]]
  /\ calls = <<>>
  /\ last = NoOp
  /\ allocs = [h \in SetHandles |-> 0]
  /\ frees = [h \in SetHandles |-> 0]
  /\ entries = [s \in SetIds |-> 0]
  /\ applied = [s \in SetIds |-> <<>>]
  /\ aborted = [s \in SetIds |-> FALSE]
  /\ layouts = [l \in Layouts |-> IF l = 1 THEN InitialLayout ELSE NoLayout]
  /\ pipeline_layouts = [pl \in PipelineLayoutIds |-> NoPipelineLayout]
  /\ layout_created = {LayoutHandle(1)}
  /\ layout_destroys = [h \in DestroyedHandles |-> 0]

(***************************************************************************)
(* Releasing a shared reference; the last one runs the object's Drop.      *)
(***************************************************************************)
ReleasePool(st, p) ==
  LET n == st.pool_strong[p] - 1
  IN  [st EXCEPT !.pool_strong[p] = n,
                 !.calls = IF n = 0
                           THEN Append(@, [fn |-> "DestroyDescriptorPool",
                                           descriptorPool |-> PoolHandle(p)])
                           ELSE @]

\* Drop for DescriptorSetLayout
DropDescriptorSetLayout(st, l) ==
  [st EXCEPT !.calls = Append(@, [fn |-> "DestroyDescriptorSetLayout",
                                  layout |-> LayoutHandle(l)]),
             !.layouts[l].status = "destroyed"]

ReleaseLayout(st, l) ==
  LET n == st.layout_strong[l] - 1
      st1 == [st EXCEPT !.layout_strong[l] = n]
  IN  IF n = 0 THEN DropDescriptorSetLayout(st1, l) ELSE st1

(***************************************************************************)
(* DescriptorSet::uninitialized.  outcome and output are the driver's      *)
(* answer to AllocateDescriptorSets.                                       *)
(***************************************************************************)
\* check_errors and try!: a failed native allocation is an OomError
check_errors(outcome) == IF outcome = "SUCCESS" THEN "Ok" ELSE "OomError"

AllocateDescriptorSets(st, pool, layout, outcome, output) ==
  [st EXCEPT !.calls = Append(@,
     [fn |-> "AllocateDescriptorSets", descriptorPool |-> PoolHandle(pool),
      descriptorSetCount |-> 1, pSetLayouts |-> LayoutHandle(layout),
      outcome |-> outcome, output |-> output])]

\* a mutant of DescriptorSetValue: the set keeps no reference to its pool
DescriptorSetValue_no_pool_clone(st, s, set, pool, layout) ==
  [st EXCEPT !.sets[s] = [status |-> "live", set |-> set, pool |-> pool, layout |-> layout,
                          resources_samplers |-> <<>>,
                          resources_image_views |-> <<>>,
                          resources_buffers |-> <<>>],
             !.layout_strong[layout] = @ + 1,
             !.result = "Ok"]

\* Ok(Arc::new(DescriptorSet { .. })): the new set shares its pool and its layout
DescriptorSetValue(st, s, set, pool, layout) ==
  [st EXCEPT !.sets[s] = [status |-> "live", set |-> set, pool |-> pool, layout |-> layout,
                          resources_samplers |-> <<>>,
                          resources_image_views |-> <<>>,
                          resources_buffers |-> <<>>],
             !.pool_strong[pool] = @ + 1,
             !.layout_strong[layout] = @ + 1,
             !.result = "Ok"]

\* a mutant of uninitialized: the devices of the pool and the layout are not compared
uninitialized_no_device_check(st, s, pool, layout, outcome, output) ==
  LET st1 == AllocateDescriptorSets(st, pool, layout, outcome, output)
  IN  IF check_errors(outcome) # "Ok"
      THEN [st1 EXCEPT !.result = "OomError", !.sets[s].status = "failed"]
      ELSE DescriptorSetValue(st1, s, output, pool, layout)

uninitialized(st, s, pool, layout, outcome, output) ==
  IF PoolDevice(pool) # LayoutDevice(layout)
  THEN [st EXCEPT !.result = "panic", !.sets[s].status = "failed"]
  ELSE LET st1 == AllocateDescriptorSets(st, pool, layout, outcome, output)
       IN  IF check_errors(outcome) # "Ok"
           THEN [st1 EXCEPT !.result = "OomError", !.sets[s].status = "failed"]
           ELSE DescriptorSetValue(st1, s, output, pool, layout)

(***************************************************************************)
(* The driver's UpdateDescriptorSets: each record overwrites the           *)
(* descriptor it names with the payload its pointer refers to.             *)
(***************************************************************************)
Deref(ptr, image_descriptors, buffer_descriptors) ==
  IF ptr.arr = "image_descriptors" THEN image_descriptors[ptr.off + 1]
  ELSE buffer_descriptors[ptr.off + 1]

WrittenDescriptor(rec, image_descriptors, buffer_descriptors) ==
  IF rec.pBufferInfo # NullPtr
  THEN LET info == Deref(rec.pBufferInfo, image_descriptors, buffer_descriptors)
       IN  [written |-> TRUE, descriptorType |-> rec.descriptorType,
            buffer |-> info.buffer, offset |-> info.offset, range |-> info.range,
            sampler |-> Null, imageView |-> Null, imageLayout |-> 0]
  ELSE LET info == Deref(rec.pImageInfo, image_descriptors, buffer_descriptors)
       IN  [written |-> TRUE, descriptorType |-> rec.descriptorType,
            buffer |-> Null, offset |-> 0, range |-> 0,
            sampler |-> info.sampler, imageView |-> info.imageView,
            imageLayout |-> info.imageLayout]

RECURSIVE UpdateDescriptorSets(_, _, _, _, _)
UpdateDescriptorSets(desc, vk_writes, i, image_descriptors, buffer_descriptors) ==
  IF i > Len(vk_writes) THEN desc
  ELSE LET rec == vk_writes[i]
           pos == <<rec.dstBinding, rec.dstArrayElement>>
       IN  UpdateDescriptorSets(
             IF rec.dstSet \in DOMAIN desc /\ pos \in Positions
             THEN [desc EXCEPT ![rec.dstSet][pos] =
                     WrittenDescriptor(rec, image_descriptors, buffer_descriptors)]
             ELSE desc,
             vk_writes, i + 1, image_descriptors, buffer_descriptors)

(***************************************************************************)
(* DescriptorSet::unchecked_write (and write, which decodes its request    *)
(* with the layout's description and then calls it).                       *)
(***************************************************************************)
\* a mutant of update_call: the native call is issued for an empty batch too
update_call_always(st, vk_writes, image_descriptors, buffer_descriptors) ==
  [st EXCEPT
     !.calls = Append(@, [fn |-> "UpdateDescriptorSets",
                          descriptorWriteCount |-> Len(vk_writes),
                          pDescriptorWrites |-> vk_writes,
                          image_descriptors |-> image_descriptors,
                          buffer_descriptors |-> buffer_descriptors,
                          descriptorCopyCount |-> 0]),
     !.descriptors = UpdateDescriptorSets(@, vk_writes, 1,
                       image_descriptors, buffer_descriptors)]

\* the end of unchecked_write: the native call, unless the batch is empty.  The
\* call carries the payload arrays its records point into.
update_call(st, vk_writes, image_descriptors, buffer_descriptors) ==
  IF vk_writes # <<>>
  THEN [st EXCEPT
          !.calls = Append(@, [fn |-> "UpdateDescriptorSets",
                               descriptorWriteCount |-> Len(vk_writes),
                               pDescriptorWrites |-> vk_writes,
                               image_descriptors |-> image_descriptors,
                               buffer_descriptors |-> buffer_descriptors,
                               descriptorCopyCount |-> 0]),
          !.descriptors = UpdateDescriptorSets(@, vk_writes, 1,
                            image_descriptors, buffer_descriptors)]
  ELSE st

\* a mutant of unchecked_write: the buffer payload list is not started afresh
\* but continues a list of payloads of the buffers the set already holds
unchecked_write_stale_payloads(st, s, write) ==
  LET self == st.sets[s]
      b == buffer_pass(write, 1,
             [panic |-> FALSE, resources_buffers |-> self.resources_buffers,
              buffer_descriptors |->
                [k \in DOMAIN self.resources_buffers |->
                   [buffer |-> BufferHandle(self.resources_buffers[k]),
                    offset |-> 0, range |-> 0]]])
      st1 == [st EXCEPT !.sets[s].resources_buffers = b.resources_buffers,
                        !.entries[s] = @ + Len(write)]
      im == image_pass(write, 1,
              [panic |-> FALSE, resources_samplers |-> self.resources_samplers,
               resources_image_views |-> self.resources_image_views,
               image_descriptors |-> <<>>])
      st2 == [st1 EXCEPT !.sets[s].resources_samplers = im.resources_samplers,
                         !.sets[s].resources_image_views = im.resources_image_views]
      w == vk_writes_pass(write, 1, self.set,
             [next_buffer_desc |-> 0, next_image_desc |-> 0, vk_writes |-> <<>>])
  IN  IF b.panic THEN [st1 EXCEPT !.result = "panic", !.aborted[s] = TRUE]
      ELSE IF im.panic THEN [st2 EXCEPT !.result = "panic", !.aborted[s] = TRUE]
      ELSE update_call([st2 EXCEPT !.result = "Ok", !.applied[s] = @ \o write],
                       w.vk_writes, im.image_descriptors, b.buffer_descriptors)

\* a mutant of unchecked_write: the image writes are examined before the buffer writes
unchecked_write_images_first(st, s, write) ==
  LET self == st.sets[s]
      im == image_pass(write, 1,
              [panic |-> FALSE, resources_samplers |-> self.resources_samplers,
               resources_image_views |-> self.resources_image_views,
               image_descriptors |-> <<>>])
      st1 == [st EXCEPT !.sets[s].resources_samplers = im.resources_samplers,
                        !.sets[s].resources_image_views = im.resources_image_views,
                        !.entries[s] = @ + Len(write)]
      b == buffer_pass(write, 1,
             [panic |-> FALSE, resources_buffers |-> self.resources_buffers,
              buffer_descriptors |-> <<>>])
      st2 == [st1 EXCEPT !.sets[s].resources_buffers = b.resources_buffers]
      w == vk_writes_pass(write, 1, self.set,
             [next_buffer_desc |-> 0, next_image_desc |-> 0, vk_writes |-> <<>>])
  IN  IF im.panic THEN [st1 EXCEPT !.result = "panic", !.aborted[s] = TRUE]
      ELSE IF b.panic THEN [st2 EXCEPT !.result = "panic", !.aborted[s] = TRUE]
      ELSE IF \/ w.next_buffer_desc # Len(b.buffer_descriptors)
              \/ w.next_image_desc # Len(im.image_descriptors)
           THEN [st2 EXCEPT !.result = "panic", !.aborted[s] = TRUE]
      ELSE update_call([st2 EXCEPT !.result = "Ok", !.applied[s] = @ \o write],
                       w.vk_writes, im.image_descriptors, b.buffer_descriptors)

unchecked_write(st, s, write) ==
  LET self == st.sets[s]
      b == buffer_pass(write, 1,
             [panic |-> FALSE, resources_buffers |-> self.resources_buffers,
              buffer_descriptors |-> <<>>])
      st1 == [st EXCEPT !.sets[s].resources_buffers = b.resources_buffers,
                        !.entries[s] = @ + Len(write)]
      im == image_pass(write, 1,
              [panic |-> FALSE, resources_samplers |-> self.resources_samplers,
               resources_image_views |-> self.resources_image_views,
               image_descriptors |-> <<>>])
      st2 == [st1 EXCEPT !.sets[s].resources_samplers = im.resources_samplers,
                         !.sets[s].resources_image_views = im.resources_image_views]
      w == vk_writes_pass(write, 1, self.set,
             [next_buffer_desc |-> 0, next_image_desc |-> 0, vk_writes |-> <<>>])
  IN  IF b.panic THEN [st1 EXCEPT !.result = "panic", !.aborted[s] = TRUE]
      ELSE IF im.panic THEN [st2 EXCEPT !.result = "panic", !.aborted[s] = TRUE]
      ELSE IF \/ w.next_buffer_desc # Len(b.buffer_descriptors)
              \/ w.next_image_desc # Len(im.image_descriptors)
           THEN [st2 EXCEPT !.result = "panic", !.aborted[s] = TRUE]
      ELSE update_call([st2 EXCEPT !.result = "Ok", !.applied[s] = @ \o write],
                       w.vk_writes, im.image_descriptors, b.buffer_descriptors)

(***************************************************************************)
(* Drop for DescriptorSet: the free call, then the fields are dropped in   *)
(* declaration order (pool, layout, the three resource lists).             *)
(***************************************************************************)
\* a mutant of drop: the set is destroyed without the free call
drop_without_free(st, s) ==
  LET self == st.sets[s]
      st2 == ReleaseLayout(ReleasePool(st, self.pool), self.layout)
  IN  [st2 EXCEPT !.sets[s] = [NoSet EXCEPT !.status = "dropped", !.set = self.set,
                                            !.pool = self.pool],
                  !.descriptors[self.set] = [p \in Positions |-> Unwritten],
                  !.entries[s] = 0, !.applied[s] = <<>>, !.aborted[s] = FALSE]

drop(st, s) ==
  LET self == st.sets[s]
      st1 == [st EXCEPT !.calls = Append(@, [fn |-> "FreeDescriptorSets",
                                             descriptorPool |-> PoolHandle(self.pool),
                                             descriptorSetCount |-> 1,
                                             pDescriptorSets |-> self.set])]
      st2 == ReleaseLayout(ReleasePool(st1, self.pool), self.layout)
  IN  [st2 EXCEPT !.sets[s] = [NoSet EXCEPT !.status = "dropped", !.set = self.set,
                                            !.pool = self.pool],
                  !.descriptors[self.set] = [p \in Positions |-> Unwritten],
                  !.entries[s] = 0, !.applied[s] = <<>>, !.aborted[s] = FALSE]

(***************************************************************************)
(* DescriptorSet::new: allocate, then apply the decoded initial batch.  A  *)
(* panic in the batch unwinds through new and drops the local set.         *)
(***************************************************************************)
\* a mutant of new: the allocation's result is unwrapped instead of returned
new_unwrap(st, s, pool, layout, init, outcome, output) ==
  LET st1 == uninitialized(st, s, pool, layout, outcome, output)
  IN  IF st1.result # "Ok" THEN [st1 EXCEPT !.result = "panic"]
      ELSE LET st2 == unchecked_write(st1, s, init)
           IN  IF st2.result = "panic"
               THEN [drop(st2, s) EXCEPT !.result = "panic"]
               ELSE st2

\* a mutant of new: the set allocated for a batch that aborts is leaked
new_leak_on_panic(st, s, pool, layout, init, outcome, output) ==
  LET st1 == uninitialized(st, s, pool, layout, outcome, output)
  IN  IF st1.result # "Ok" THEN st1
      ELSE LET st2 == unchecked_write(st1, s, init)
           IN  IF st2.result = "panic"
               THEN [st2 EXCEPT !.sets[s] = [NoSet EXCEPT !.status = "dropped",
                                                          !.set = st2.sets[s].set,
                                                          !.pool = st2.sets[s].pool],
                                !.entries[s] = 0, !.applied[s] = <<>>, !.aborted[s] = FALSE]
               ELSE st2

new(st, s, pool, layout, init, outcome, output) ==
  LET st1 == uninitialized(st, s, pool, layout, outcome, output)
  IN  IF st1.result # "Ok" THEN st1
      ELSE LET st2 == unchecked_write(st1, s, init)
           IN  IF st2.result = "panic"
               THEN [drop(st2, s) EXCEPT !.result = "panic"]
               ELSE st2

(***************************************************************************)
(* DescriptorSetLayout::new.  outcome and output are the driver's answer   *)
(* to CreateDescriptorSetLayout.                                           *)
(***************************************************************************)
\* desc.stages.into(): the shader stages as the bits of a VkShaderStageFlags
StageFlags(stages) ==
  (IF "vertex" \in stages THEN 1 ELSE 0)
  + (IF "fragment" \in stages THEN 16 ELSE 0)
  + (IF "compute" \in stages THEN 32 ELSE 0)

\* a mutant of DescriptorSetLayoutBinding: the record takes the entry's position
\* in the description as its binding index
DescriptorSetLayoutBinding_by_position(descs, i) ==
  [binding |-> i - 1,
   descriptorType |-> ty(descs[i].ty),
   descriptorCount |-> descs[i].array_count,
   stageFlags |-> StageFlags(descs[i].stages),
   pImmutableSamplers |-> NullPtr]

\* the closure of the map over description.descriptors(), for its i-th entry
DescriptorSetLayoutBinding(descs, i) ==
  [binding |-> descs[i].binding,
   descriptorType |-> ty(descs[i].ty),
   descriptorCount |-> descs[i].array_count,
   stageFlags |-> StageFlags(descs[i].stages),
   pImmutableSamplers |-> NullPtr]

CreateDescriptorSetLayout(st, device, bindings, outcome, output) ==
  [st EXCEPT !.calls = Append(@,
     [fn |-> "CreateDescriptorSetLayout", device |-> device, flags |-> 0,
      bindingCount |-> Len(bindings), pBindings |-> bindings,
      outcome |-> outcome, output |-> output])]

DescriptorSetLayout_new(st, l, device, description, outcome, output) ==
  LET bindings == [i \in DOMAIN description |-> DescriptorSetLayoutBinding(description, i)]
      st1 == CreateDescriptorSetLayout(st, device, bindings, outcome, output)
  IN  IF check_errors(outcome) # "Ok"
      THEN [st1 EXCEPT !.result = "OomError", !.layouts[l].status = "failed"]
      ELSE [st1 EXCEPT !.layouts[l] = [status |-> "live", layout |-> output,
                                       device |-> device, description |-> description],
                       !.layout_strong[l] = 1,
                       !.result = "Ok"]

(***************************************************************************)
(* PipelineLayout::new and Drop for PipelineLayout.  set_layouts is the    *)
(* list that decode_descriptor_set_layouts returns: shared references to   *)
(* layouts, in order.                                                      *)
(***************************************************************************)
RECURSIVE AcquireLayouts(_, _, _)
AcquireLayouts(strong, set_layouts, i) ==
  IF i > Len(set_layouts) THEN strong
  ELSE AcquireLayouts([strong EXCEPT ![set_layouts[i]] = @ + 1], set_layouts, i + 1)

\* dropping a Vec<Arc<..>> releases its elements in order
RECURSIVE ReleaseLayouts(_, _, _)
ReleaseLayouts(st, set_layouts, i) ==
  IF i > Len(set_layouts) THEN st
  ELSE ReleaseLayouts(ReleaseLayout(st, set_layouts[i]), set_layouts, i + 1)

\* a mutant of layouts_ids: the handles are collected in reverse order
layouts_ids_reversed(st, set_layouts) ==
  [i \in DOMAIN set_layouts |-> st.layouts[set_layouts[Len(set_layouts) + 1 - i]].layout]

\* internal_object of each decoded layout
layouts_ids(st, set_layouts) ==
  [i \in DOMAIN set_layouts |-> st.layouts[set_layouts[i]].layout]

CreatePipelineLayout(st, device, ids, outcome, output) ==
  [st EXCEPT !.calls = Append(@,
     [fn |-> "CreatePipelineLayout", device |-> device, flags |-> 0,
      setLayoutCount |-> Len(ids), pSetLayouts |-> ids,
      pushConstantRangeCount |-> 0, pPushConstantRanges |-> NullPtr,
      outcome |-> outcome, output |-> output])]

\* on the error path the decoded list is dropped again, which leaves every
\* count as it was, the caller holding its own references
PipelineLayout_new(st, pl, device, set_layouts, outcome, output) ==
  LET st1 == CreatePipelineLayout(st, device, layouts_ids(st, set_layouts), outcome, output)
  IN  IF check_errors(outcome) # "Ok"
      THEN [st1 EXCEPT !.result = "OomError", !.pipeline_layouts[pl].status = "failed"]
      ELSE [st1 EXCEPT !.pipeline_layouts[pl] =
                          [status |-> "live", device |-> device, layout |-> output,
                           layouts |-> set_layouts],
                       !.layout_strong = AcquireLayouts(@, set_layouts, 1),
                       !.result = "Ok"]

\* Drop for PipelineLayout: the native call of line 408 is handed the pipeline
\* layout handle; then the fields are dropped, the layouts last
PipelineLayout_drop(st, pl) ==
  LET self == st.pipeline_layouts[pl]
      st1 == [st EXCEPT !.calls = Append(@, [fn |-> "DestroyDescriptorSetLayout",
                                             layout |-> self.layout])]
      st2 == ReleaseLayouts(st1, self.layouts, 1)
  IN  [st2 EXCEPT !.pipeline_layouts[pl] =
                     [NoPipelineLayout EXCEPT !.status = "dropped", !.layout = self.layout],
                  !.result = "Ok"]

(***************************************************************************)
(* The operations as actions.                                              *)
(***************************************************************************)
CountCalls(cs, fn, h) ==
  Cardinality({i \in DOMAIN cs :
                 /\ cs[i].fn = fn
                 /\ IF fn = "AllocateDescriptorSets"
                    THEN cs[i].outcome = "SUCCESS" /\ cs[i].output = h
                    ELSE cs[i].pDescriptorSets = h})

\* the handles that CreateDescriptorSetLayout returned in the calls cs
CreatedIn(cs) ==
  {cs[i].output : i \in {k \in DOMAIN cs : /\ cs[k].fn = "CreateDescriptorSetLayout"
                                           /\ cs[k].outcome = "SUCCESS"}}

\* the number of DestroyDescriptorSetLayout calls in cs that were handed h
DestroysIn(cs, h) ==
  Cardinality({i \in DOMAIN cs : /\ cs[i].fn = "DestroyDescriptorSetLayout"
                                 /\ cs[i].layout = h})

\* the state an operation leaves behind, with the counts of its native calls
ApplyState(st) ==
  /\ sets' = st.sets
  /\ pool_strong' = st.pool_strong
  /\ layout_strong' = st.layout_strong
  /\ descriptors' = st.descriptors
  /\ calls' = st.calls
  /\ allocs' = [h \in SetHandles |-> allocs[h] + CountCalls(st.calls, "AllocateDescriptorSets", h)]
  /\ frees' = [h \in SetHandles |-> frees[h] + CountCalls(st.calls, "FreeDescriptorSets", h)]
  /\ entries' = st.entries
  /\ applied' = st.applied
  /\ aborted' = st.aborted
  /\ layouts' = st.layouts
  /\ pipeline_layouts' = st.pipeline_layouts
  /\ layout_created' = layout_created \cup CreatedIn(st.calls)
  /\ layout_destroys' = [h \in DestroyedHandles |-> layout_destroys[h] + DestroysIn(st.calls, h)]

Apply(st, op, s, pool, layout, write) ==
  /\ ApplyState(st)
  /\ last' = [op |-> op, s |-> s, pool |-> pool, layout |-> layout, write |-> write,
              result |-> st.result, pl |-> 0, arg |-> <<>>]

\* the same for the operations on layouts and pipeline layouts
ApplyLayout(st, op, layout, pl, arg) ==
  /\ ApplyState(st)
  /\ last' = [op |-> op, s |-> 0, pool |-> Null, layout |-> layout, write |-> <<>>,
              result |-> st.result, pl |-> pl, arg |-> arg]

\* the driver's possible answers to the allocation request of slot s
AllocOutcomes(s) ==
  {<<"SUCCESS", SetHandle(s)>>, <<"ERROR_OUT_OF_DEVICE_MEMORY", Null>>}

Uninitialized(s, pool, layout) ==
  /\ sets[s].status = "none"
  /\ pool \in user_pools
  /\ layout \in user_layouts
  /\ \E a \in AllocOutcomes(s) :
       Apply(uninitialized(State, s, pool, layout, a[1], a[2]), "uninitialized", s, pool, layout, <<>>)
  /\ UNCHANGED <<user_pools, user_layouts>>

\* the initial batch has at most cap entries drawn from W
New(s, pool, layout, W, cap) ==
  /\ sets[s].status = "none"
  /\ pool \in user_pools
  /\ layout \in user_layouts
  /\ \E n \in 0 .. cap : \E init \in Batches(W, n) : \E a \in AllocOutcomes(s) :
       Apply(new(State, s, pool, layout, init, a[1], a[2]), "new", s, pool, layout, init)
  /\ UNCHANGED <<user_pools, user_layouts>>

\* the batch is drawn from W; a set is written cap entries in all
UncheckedWrite(s, W, cap) ==
  /\ sets[s].status = "live"
  /\ \E n \in 0 .. cap :
       /\ entries[s] + n <= cap
       /\ \E write \in Batches(W, n) :
            Apply(unchecked_write(State, s, write), "unchecked_write", s, Null, Null, write)
  /\ UNCHANGED <<user_pools, user_layouts>>

Drop(s) ==
  /\ sets[s].status = "live"
  /\ Apply(drop(State, s), "drop", s, Null, Null, <<>>)
  /\ UNCHANGED <<user_pools, user_layouts>>

\* the caller lets go of its own reference to a pool or a layout
DropPoolRef(p) ==
  /\ p \in user_pools
  /\ user_pools' = user_pools \ {p}
  /\ Apply(ReleasePool(State, p), "drop_pool_ref", 0, p, Null, <<>>)
  /\ UNCHANGED user_layouts

DropLayoutRef(l) ==
  /\ l \in user_layouts
  /\ user_layouts' = user_layouts \ {l}
  /\ Apply(ReleaseLayout(State, l), "drop_layout_ref", 0, Null, l, <<>>)
  /\ UNCHANGED user_pools

\* the driver's possible answers to CreateDescriptorSetLayout for slot l
LayoutOutcomes(l) ==
  {<<"SUCCESS", LayoutHandle(l)>>, <<"ERROR_OUT_OF_HOST_MEMORY", Null>>}

\* the driver's possible answers to CreatePipelineLayout for slot pl: handles of
\* different object types are numbered independently, so that the new handle
\* may have the value of a descriptor set layout's handle
PipelineLayoutOutcomes(pl) ==
  {<<"SUCCESS", h>> : h \in {PipelineLayoutHandle(pl)} \cup LayoutHandles}
  \cup {<<"ERROR_OUT_OF_HOST_MEMORY", Null>>}

DescriptorSetLayoutNew(l) ==
  /\ layouts[l].status = "none"
  /\ \E description \in Descriptions : \E a \in LayoutOutcomes(l) :
       /\ ApplyLayout(DescriptorSetLayout_new(State, l, LayoutDevice(l), description, a[1], a[2]),
                      "descriptor_set_layout_new", l, 0, description)
       /\ user_layouts' = IF a[1] = "SUCCESS" THEN user_layouts \cup {l} ELSE user_layouts
  /\ UNCHANGED user_pools

\* the caller hands in up to MaxSetLayouts of the layouts it holds
PipelineLayoutNew(pl) ==
  /\ pipeline_layouts[pl].status = "none"
  /\ \E device \in Devices : \E n \in 0 .. MaxSetLayouts :
       \E set_layouts \in [1 .. n -> user_layouts] : \E a \in PipelineLayoutOutcomes(pl) :
         ApplyLayout(PipelineLayout_new(State, pl, device, set_layouts, a[1], a[2]),
                     "pipeline_layout_new", Null, pl, set_layouts)
  /\ UNCHANGED <<user_pools, user_layouts>>

PipelineLayoutDrop(pl) ==
  /\ pipeline_layouts[pl].status = "live"
  /\ ApplyLayout(PipelineLayout_drop(State, pl), "pipeline_layout_drop", Null, pl, <<>>)
  /\ UNCHANGED <<user_pools, user_layouts>>

(***************************************************************************)
(* Four specifications over the same operations.  Spec runs the whole life *)
(* cycle of several sets and pools with a few representative writes;       *)
(* SpecWrite runs one set with every kind of write; SpecBatch runs longer  *)
(* batches; SpecLayout runs layouts and pipeline layouts.                  *)
(***************************************************************************)
LifeWrites ==
  {[binding |-> 0, array_element |-> 1, content |-> c] :
     c \in {Bind("UniformBuffer", 1, 0, 64, Null, Null, Null),
            Bind("StorageBuffer", 1, 0, 64, Null, Null, Null)}}


Next ==
  \/ \E s \in SetIds, p \in Pools, l \in Layouts : Uninitialized(s, p, l)
  \/ \E s \in SetIds, p \in Pools, l \in Layouts : New(s, p, l, LifeWrites, LifeEntries)
  \/ \E s \in SetIds : UncheckedWrite(s, LifeWrites, LifeEntries)
  \/ \E s \in SetIds : Drop(s)
  \/ \E p \in Pools : DropPoolRef(p)
  \/ \E l \in Layouts : DropLayoutRef(l)

Spec == Init /\ [][Next]_vars

NextWrite ==
  \/ Uninitialized(1, 1, 1)
  \/ New(1, 1, 1, DescriptorWrites, MaxEntries)
  \/ UncheckedWrite(1, DescriptorWrites, MaxEntries)
  \/ Drop(1)

SpecWrite == Init /\ [][NextWrite]_vars

\* SpecBatch runs one set with longer batches over a few writes of both
\* families, two of which fail their capability check
BatchWrites ==
  {[binding |-> 0, array_element |-> 1,
    content |-> Bind("UniformBuffer", 1, 0, 64, Null, Null, Null)],
   [binding |-> 1, array_element |-> 0,
    content |-> Bind("StorageBuffer", 1, 0, 64, Null, Null, Null)],
   [binding |-> 0, array_element |-> 1,
    content |-> Bind("Sampler", Null, 0, 0, 2, Null, Null)],
   [binding |-> 1, array_element |-> 0,
    content |-> Bind("CombinedImageSampler", Null, 0, 0, 1, 1, 5)],
   [binding |-> 0, array_element |-> 1,
    content |-> Bind("StorageImage", Null, 0, 0, Null, 1, 5)]}

NextBatch ==
  \/ Uninitialized(1, 1, 1)
  \/ UncheckedWrite(1, BatchWrites, BatchEntries)
  \/ Drop(1)

SpecBatch == Init /\ [][NextBatch]_vars

\* SpecLayout starts before any layout exists and runs the creation and the
\* destruction of layouts, of a pipeline layout and of a set that share them
InitLayout ==
  /\ sets = [s \in SetIds |-> NoSet]
  /\ pool_strong = [p \in Pools |-> 1]
  /\ layout_strong = [l \in Layouts |-> 0]
  /\ user_pools = Pools
  /\ user_layouts = {}
  /\ descriptors = [h \in SetHandles |-> [p \in Positions |-> Unwritten]]
  /\ calls = <<>>
  /\ last = NoOp
  /\ allocs = [h \in SetHandles |-> 0]
  /\ frees = [h \in SetHandles |-> 0]
  /\ entries = [s \in SetIds |-> 0]
  /\ applied = [s \in SetIds |-> <<>>]
  /\ aborted = [s \in SetIds |-> FALSE]
  /\ layouts = [l \in Layouts |-> NoLayout]
  /\ pipeline_layouts = [pl \in PipelineLayoutIds |-> NoPipelineLayout]
  /\ layout_created = {}
  /\ layout_destroys = [h \in DestroyedHandles |-> 0]

NextLayout ==
  \/ \E l \in Layouts : DescriptorSetLayoutNew(l)
  \/ \E pl \in PipelineLayoutIds : PipelineLayoutNew(pl)
  \/ \E pl \in PipelineLayoutIds : PipelineLayoutDrop(pl)
  \/ \E p \in Pools, l \in Layouts : Uninitialized(1, p, l)
  \/ Drop(1)
  \/ \E l \in Layouts : DropLayoutRef(l)

SpecLayout == InitLayout /\ [][NextLayout]_vars

(***************************************************************************)
(* Vocabulary of the properties.                                           *)
(***************************************************************************)
UpdateCalls == SelectSeq(calls, LAMBDA c : c.fn = "UpdateDescriptorSets")
FreeCalls == SelectSeq(calls, LAMBDA c : c.fn = "FreeDescriptorSets")
AllocateCalls == SelectSeq(calls, LAMBDA c : c.fn = "AllocateDescriptorSets")

\* the last operation applied a write batch to a set that exists
WroteBatch ==
  \/ last.op = "unchecked_write"
  \/ /\ last.op = "new"
     /\ \E i \in DOMAIN AllocateCalls : AllocateCalls[i].outcome = "SUCCESS"

\* the usage capability a write must find on its resource
HasCapability(c) ==
  CASE c.kind \in {"UniformBuffer", "DynamicUniformBuffer"} -> c.buffer = 1
    [] c.kind \in {"StorageBuffer", "DynamicStorageBuffer"} -> c.buffer = 2
    [] c.kind \in {"CombinedImageSampler", "SampledImage"} -> c.image = 1
    [] c.kind = "StorageImage" -> c.image = 2
    [] c.kind = "InputAttachment" -> c.image = 3
    [] c.kind = "Sampler" -> TRUE

IsBufferKind(c) ==
  c.kind \in {"UniformBuffer", "DynamicUniformBuffer", "StorageBuffer", "DynamicStorageBuffer"}

IsImageViewKind(c) ==
  c.kind \in {"CombinedImageSampler", "SampledImage", "StorageImage", "InputAttachment"}

IsSamplerKind(c) == c.kind \in {"Sampler", "CombinedImageSampler"}

Range(seq) == {seq[i] : i \in DOMAIN seq}

(***************************************************************************)
(* C1: a batch of n >= 1 writes whose capability checks all pass issues    *)
(* exactly one native update call with exactly n records, and the i-th     *)
(* record names the set's own handle, the binding and the array element of *)
(* the i-th write, a count of 1 and the descriptor type of its kind.       *)
(***************************************************************************)
C1_OneUpdatePerBatch ==
  (/\ WroteBatch
   /\ Len(last.write) >= 1
   /\ \A i \in DOMAIN last.write : HasCapability(last.write[i].content))
  => /\ last.result = "Ok"
     /\ Len(UpdateCalls) = 1
     /\ UpdateCalls[1].descriptorWriteCount = Len(last.write)
     /\ Len(UpdateCalls[1].pDescriptorWrites) = Len(last.write)
     /\ \A i \in DOMAIN last.write :
          LET rec == UpdateCalls[1].pDescriptorWrites[i]
              w == last.write[i]
          IN  /\ rec.dstSet = sets[last.s].set
              /\ rec.dstSet = SetHandle(last.s)
              /\ rec.dstBinding = w.binding
              /\ rec.dstArrayElement = w.array_element
              /\ rec.descriptorCount = 1
              /\ rec.descriptorType = ty(w.content.kind)

\* a batch of two writes of different kinds and bindings went through
C1_Witness ==
  /\ last.op = "unchecked_write"
  /\ last.result = "Ok"
  /\ Len(last.write) = 2
  /\ last.write[1].binding = 1
  /\ last.write[1].array_element = 0
  /\ last.write[2].binding = 0
  /\ last.write[2].array_element = 1
  /\ IsBufferKind(last.write[1].content)
  /\ ~IsBufferKind(last.write[2].content)
  /\ Len(UpdateCalls) = 1

(***************************************************************************)
(* C2: a batch with a buffer-kind write whose buffer lacks the matching    *)
(* usage capability aborts, and no native update call is issued for it,    *)
(* whatever the other writes of the batch are.                             *)
(***************************************************************************)
LacksBufferCapability(w) == IsBufferKind(w.content) /\ ~HasCapability(w.content)

C2_BufferMismatchAborts ==
  (WroteBatch /\ \E i \in DOMAIN last.write : LacksBufferCapability(last.write[i]))
  => /\ last.result = "panic"
     /\ Len(UpdateCalls) = 0

\* the offending buffer write comes last, after a write that passes its check
C2_Witness ==
  /\ last.op = "unchecked_write"
  /\ Len(last.write) = 2
  /\ HasCapability(last.write[1].content)
  /\ last.write[1].content.kind = "SampledImage"
  /\ LacksBufferCapability(last.write[2])
  /\ last.write[2].content.kind = "DynamicStorageBuffer"
  /\ last.result = "panic"

(***************************************************************************)
(* C3: in every state of a live set, every resource referenced by a        *)
(* descriptor that a native update call has written into the set is in the *)
(* set's tracking collection of its type.                                  *)
(***************************************************************************)
Tracked(s, d) ==
  /\ d.buffer # Null =>
       \E i \in DOMAIN sets[s].resources_buffers :
         BufferHandle(sets[s].resources_buffers[i]) = d.buffer
  /\ d.sampler # Null =>
       \E i \in DOMAIN sets[s].resources_samplers :
         SamplerHandle(sets[s].resources_samplers[i]) = d.sampler
  /\ d.imageView # Null =>
       \E i \in DOMAIN sets[s].resources_image_views :
         ImageViewHandle(sets[s].resources_image_views[i]) = d.imageView

C3_BoundResourcesTracked ==
  \A s \in SetIds :
    sets[s].status = "live" =>
      \A p \in Positions :
        LET d == descriptors[sets[s].set][p]
        IN  d.written => /\ Tracked(s, d)
                         /\ d.buffer # Null \/ d.sampler # Null \/ d.imageView # Null

\* a binding written with a buffer was overwritten with an image and a sampler
C3_Witness ==
  \E s \in SetIds :
    /\ sets[s].status = "live"
    /\ Len(applied[s]) = 2
    /\ Len(last.write) = 1
    /\ applied[s][1].binding = applied[s][2].binding
    /\ applied[s][1].array_element = applied[s][2].array_element
    /\ IsBufferKind(applied[s][1].content)
    /\ applied[s][2].content.kind = "CombinedImageSampler"
    /\ descriptors[sets[s].set][<<applied[s][2].binding, applied[s][2].array_element>>].imageView
         = ImageViewHandle(applied[s][2].content.image)

(***************************************************************************)
(* C4: as long as every batch written to a set was applied, the buffer     *)
(* collection holds exactly the buffers of the buffer-kind writes, the     *)
(* sampler collection exactly the samplers of the sampler and combined-    *)
(* image-sampler writes, the image-view collection exactly the image views *)
(* of the four image kinds.                                                *)
(***************************************************************************)
C4_TrackingIsUnionOfWrites ==
  \A s \in SetIds :
    (sets[s].status = "live" /\ ~aborted[s]) =>
      /\ Range(sets[s].resources_buffers)
           = {w.content.buffer : w \in {x \in Range(applied[s]) : IsBufferKind(x.content)}}
      /\ Range(sets[s].resources_samplers)
           = {w.content.sampler : w \in {x \in Range(applied[s]) : IsSamplerKind(x.content)}}
      /\ Range(sets[s].resources_image_views)
           = {w.content.image : w \in {x \in Range(applied[s]) : IsImageViewKind(x.content)}}

\* two batches were applied: a combined image sampler, then a buffer
C4_Witness ==
  \E s \in SetIds :
    /\ sets[s].status = "live"
    /\ ~aborted[s]
    /\ Len(applied[s]) = 2
    /\ Len(last.write) = 1
    /\ applied[s][1].content.kind = "CombinedImageSampler"
    /\ applied[s][2].content.kind = "StorageBuffer"

(***************************************************************************)
(* C5: an empty batch written to a live set issues no native call and      *)
(* leaves the three tracking collections and the set's handle unchanged.   *)
(***************************************************************************)
C5_EmptyBatchIsNoOp ==
  [][(last'.op = "unchecked_write" /\ Len(last'.write) = 0)
       => /\ last'.result = "Ok"
          /\ calls' = <<>>
          /\ sets'[last'.s] = sets[last'.s]
          /\ sets[last'.s].status = "live"
          /\ descriptors' = descriptors]_vars

\* an empty batch was written to a set that tracks resources of earlier writes
C5_Witness ==
  /\ last.op = "unchecked_write"
  /\ Len(last.write) = 0
  /\ sets[last.s].status = "live"
  /\ Len(sets[last.s].resources_buffers) >= 1
  /\ Len(sets[last.s].resources_image_views) >= 1

(***************************************************************************)
(* C10: an image-kind write whose image view lacks the capability of its   *)
(* kind (sampled for combined image sampler and sampled image, storage for *)
(* storage image, input attachment for input attachment) aborts the batch  *)
(* without a native update call; a plain sampler write has no check: a     *)
(* batch aborts only because of a buffer or image write lacking its        *)
(* capability.                                                             *)
(***************************************************************************)
LacksImageCapability(w) == IsImageViewKind(w.content) /\ ~HasCapability(w.content)

C10_ImageMismatchAborts ==
  WroteBatch =>
    /\ (\E i \in DOMAIN last.write : LacksImageCapability(last.write[i]))
         => (last.result = "panic" /\ Len(UpdateCalls) = 0)
    /\ last.result = "panic"
         => \E i \in DOMAIN last.write :
              last.write[i].content.kind # "Sampler" /\ ~HasCapability(last.write[i].content)
    /\ (\A i \in DOMAIN last.write : last.write[i].content.kind = "Sampler")
         => last.result = "Ok"

\* an input attachment on a storage-only view aborts a batch that starts with a sampler
C10_Witness ==
  /\ last.op = "unchecked_write"
  /\ Len(last.write) = 2
  /\ last.write[1].content.kind = "Sampler"
  /\ last.write[2].content.kind = "InputAttachment"
  /\ last.write[2].content.image = 2
  /\ last.result = "panic"
  /\ Len(UpdateCalls) = 0

(***************************************************************************)
(* C6: a set that was allocated is freed exactly once, by one free call on *)
(* its own handle and its own pool, when it is destroyed; no free call is  *)
(* issued for a set whose allocation failed; no update call names a handle *)
(* that has been freed.                                                    *)
(***************************************************************************)
C6_FreedExactlyOnce ==
  /\ \A s \in SetIds :
       LET h == SetHandle(s)
       IN  /\ sets[s].status \in {"none", "failed"} => (allocs[h] = 0 /\ frees[h] = 0)
           /\ sets[s].status = "live" => (allocs[h] = 1 /\ frees[h] = 0 /\ sets[s].set = h)
           /\ sets[s].status = "dropped" => (allocs[h] = 1 /\ frees[h] = 1 /\ sets[s].set = h)
  /\ Len(FreeCalls) <= 1
  /\ \A i \in DOMAIN FreeCalls :
       /\ last.op \in {"drop", "new"}
       /\ sets[last.s].status = "dropped"
       /\ FreeCalls[i].pDescriptorSets = sets[last.s].set
       /\ FreeCalls[i].descriptorPool = PoolHandle(sets[last.s].pool)
       /\ FreeCalls[i].descriptorSetCount = 1
       /\ \A j \in DOMAIN AllocateCalls :
            AllocateCalls[j].descriptorPool = FreeCalls[i].descriptorPool
  /\ \A i \in DOMAIN UpdateCalls :
       \A k \in DOMAIN UpdateCalls[i].pDescriptorWrites :
         /\ UpdateCalls[i].pDescriptorWrites[k].dstSet \in SetHandles
         /\ frees[UpdateCalls[i].pDescriptorWrites[k].dstSet] = 0

\* one set has just been freed, after another allocation has failed
C6_Witness ==
  /\ last.op = "drop"
  /\ Len(FreeCalls) = 1
  /\ sets[last.s].status = "dropped"
  /\ frees[SetHandle(last.s)] = 1
  /\ \E t \in SetIds : sets[t].status = "failed"

(***************************************************************************)
(* C7: the free call of a set comes before its pool is destroyed: a pool   *)
(* is alive as long as a set allocated from it is, and when the set's      *)
(* destruction releases the last reference to the pool, the free call      *)
(* precedes the pool's destruction.                                        *)
(***************************************************************************)
IsPoolDestroy(c, p) == c.fn = "DestroyDescriptorPool" /\ c.descriptorPool = PoolHandle(p)
IsFreeFrom(c, p) == c.fn = "FreeDescriptorSets" /\ c.descriptorPool = PoolHandle(p)

C7_FreeBeforePoolTeardown ==
  /\ \A s \in SetIds :
       sets[s].status = "live" =>
         /\ pool_strong[sets[s].pool] >= 1
         /\ \A i \in DOMAIN calls : ~IsPoolDestroy(calls[i], sets[s].pool)
  /\ \A p \in Pools :
       /\ pool_strong[p] >= 0
       /\ \A i \in DOMAIN calls, j \in DOMAIN calls :
            (IsPoolDestroy(calls[i], p) /\ IsFreeFrom(calls[j], p)) => j < i
       /\ (\E i \in DOMAIN calls : IsPoolDestroy(calls[i], p)) => pool_strong[p] = 0

\* the destruction of a set released the last reference to its pool
C7_Witness ==
  \E i \in DOMAIN calls, j \in DOMAIN calls, p \in Pools :
    /\ IsFreeFrom(calls[i], p)
    /\ IsPoolDestroy(calls[j], p)
    /\ i < j
    /\ last.op = "drop"

(***************************************************************************)
(* C8: allocating a set from a pool and a layout of different devices      *)
(* aborts before any native allocation request: no native call is issued,  *)
(* no set comes into existence, and no handle of it is ever freed.         *)
(***************************************************************************)
C8_DeviceMismatchAborts ==
  /\ (/\ last.op \in {"uninitialized", "new"}
      /\ PoolDevice(last.pool) # LayoutDevice(last.layout))
     => /\ last.result = "panic"
        /\ calls = <<>>
        /\ sets[last.s].status = "failed"
  /\ \A s \in SetIds :
       sets[s].status = "failed" => (allocs[SetHandle(s)] = 0 /\ frees[SetHandle(s)] = 0)

\* new was called with a pool and a layout of different devices and a batch
C8_Witness ==
  /\ last.op = "new"
  /\ PoolDevice(last.pool) # LayoutDevice(last.layout)
  /\ Len(last.write) = 1
  /\ last.result = "panic"

(***************************************************************************)
(* C9: when the native allocation fails, uninitialized and new return an   *)
(* out-of-memory error, new applies no write (no update call) and no set   *)
(* exists; when it succeeds, the set uninitialized returns has its three   *)
(* tracking collections empty.                                             *)
(***************************************************************************)
C9_AllocationFailure ==
  /\ (/\ last.op \in {"uninitialized", "new"}
      /\ \E i \in DOMAIN AllocateCalls : AllocateCalls[i].outcome # "SUCCESS")
     => /\ last.result = "OomError"
        /\ Len(calls) = 1
        /\ Len(UpdateCalls) = 0
        /\ sets[last.s].status = "failed"
        /\ entries[last.s] = 0
  /\ (last.op = "uninitialized" /\ last.result = "Ok")
     => /\ sets[last.s].status = "live"
        /\ sets[last.s].resources_samplers = <<>>
        /\ sets[last.s].resources_image_views = <<>>
        /\ sets[last.s].resources_buffers = <<>>

\* new was given a batch of one write and the driver refused the allocation
C9_Witness ==
  /\ last.op = "new"
  /\ Len(last.write) = 1
  /\ Len(AllocateCalls) = 1
  /\ AllocateCalls[1].outcome = "ERROR_OUT_OF_DEVICE_MEMORY"
  /\ last.result = "OomError"

(***************************************************************************)
(* C12: the batch [uniform buffer 1 at binding 0, offset 0, size 64;       *)
(* combined image sampler (sampler 1, view 1, shader-read-only) at binding *)
(* 1] written to a fresh set builds one buffer payload and one image       *)
(* payload, issues one update call with two records and leaves buffer 1,   *)
(* sampler 1 and view 1 in the tracking collections.                       *)
(***************************************************************************)
C12_Batch ==
  <<[binding |-> 0, array_element |-> 1,
     content |-> Bind("UniformBuffer", 1, 0, 64, Null, Null, Null)],
    [binding |-> 1, array_element |-> 0,
     content |-> Bind("CombinedImageSampler", Null, 0, 0, 1, 1, 5)]>>

C12_Applied ==
  /\ WroteBatch
  /\ last.write = C12_Batch
  /\ sets[last.s].status = "live"
  /\ entries[last.s] = 2

C12_UniformAndCombined ==
  C12_Applied =>
    /\ last.result = "Ok"
    /\ Len(UpdateCalls) = 1
    /\ UpdateCalls[1].descriptorWriteCount = 2
    /\ Len(UpdateCalls[1].pDescriptorWrites) = 2
    /\ Len(UpdateCalls[1].buffer_descriptors) = 1
    /\ Len(UpdateCalls[1].image_descriptors) = 1
    /\ sets[last.s].resources_buffers = <<1>>
    /\ sets[last.s].resources_samplers = <<1>>
    /\ sets[last.s].resources_image_views = <<1>>

\* the batch was written to a set that uninitialized had just returned
C12_Witness == C12_Applied /\ last.op = "unchecked_write" /\ last.result = "Ok"

(***************************************************************************)
(* C15: for a batch that passes its checks, the records consume the buffer *)
(* payloads and the image payloads one by one, each exactly once and none  *)
(* past the end; every record has exactly one of its two payload pointers  *)
(* set; the payload of the i-th record is built from the i-th write.       *)
(***************************************************************************)
\* the number of writes before position i that are (are not) of a buffer kind
BufferWritesBefore(write, i) ==
  Cardinality({k \in 1 .. i - 1 : IsBufferKind(write[k].content)})
ImageWritesBefore(write, i) ==
  Cardinality({k \in 1 .. i - 1 : ~IsBufferKind(write[k].content)})

ExpectedImagePayload(c) ==
  [sampler |-> IF IsSamplerKind(c) THEN 200 + c.sampler ELSE 0,
   imageView |-> IF IsImageViewKind(c) THEN 300 + c.image ELSE 0,
   imageLayout |-> IF IsImageViewKind(c) THEN c.layout ELSE 0]

ExpectedBufferPayload(c) ==
  [buffer |-> 100 + c.buffer, offset |-> c.offset, range |-> c.size]

C15_PayloadsConsumedOnce ==
  (/\ WroteBatch
   /\ Len(last.write) >= 1
   /\ \A i \in DOMAIN last.write : HasCapability(last.write[i].content))
  => /\ last.result = "Ok"
     /\ Len(UpdateCalls) = 1
     /\ LET call == UpdateCalls[1]
            n == Len(last.write)
        IN  /\ Len(call.buffer_descriptors) = BufferWritesBefore(last.write, n + 1)
            /\ Len(call.image_descriptors) = ImageWritesBefore(last.write, n + 1)
            /\ \A i \in DOMAIN last.write :
                 LET rec == call.pDescriptorWrites[i]
                     c == last.write[i].content
                 IN  IF IsBufferKind(c)
                     THEN /\ rec.pImageInfo = NullPtr
                          /\ rec.pBufferInfo = Ptr("buffer_descriptors",
                                                   BufferWritesBefore(last.write, i))
                          /\ rec.pBufferInfo.off < Len(call.buffer_descriptors)
                          /\ call.buffer_descriptors[rec.pBufferInfo.off + 1]
                               = ExpectedBufferPayload(c)
                     ELSE /\ rec.pBufferInfo = NullPtr
                          /\ rec.pImageInfo = Ptr("image_descriptors",
                                                  ImageWritesBefore(last.write, i))
                          /\ rec.pImageInfo.off < Len(call.image_descriptors)
                          /\ call.image_descriptors[rec.pImageInfo.off + 1]
                               = ExpectedImagePayload(c)

\* two buffer writes went through: the second record uses the second payload
C15_Witness ==
  /\ last.op = "unchecked_write"
  /\ last.result = "Ok"
  /\ Len(last.write) = 2
  /\ last.write[1].content.kind = "UniformBuffer"
  /\ last.write[2].content.kind = "DynamicStorageBuffer"
  /\ Len(UpdateCalls) = 1
  /\ UpdateCalls[1].pDescriptorWrites[2].pBufferInfo.off = 1

(***************************************************************************)
(* C16: the tracking collections only grow: no step removes or reorders an *)
(* entry of a live set, and a batch that is applied appends one buffer per *)
(* buffer-kind write, one sampler per sampler or combined-image-sampler    *)
(* write, one image view per write of the four image kinds, a resource     *)
(* written twice being recorded twice.                                     *)
(***************************************************************************)
IsPrefix(a, b) == Len(a) <= Len(b) /\ \A i \in DOMAIN a : a[i] = b[i]

CountWrites(write, P(_)) == Cardinality({k \in DOMAIN write : P(write[k].content)})

C16_AppendOnly ==
  [][\A s \in SetIds :
       (sets[s].status = "live" /\ sets'[s].status = "live") =>
         /\ IsPrefix(sets[s].resources_buffers, sets'[s].resources_buffers)
         /\ IsPrefix(sets[s].resources_samplers, sets'[s].resources_samplers)
         /\ IsPrefix(sets[s].resources_image_views, sets'[s].resources_image_views)
         /\ (last'.op = "unchecked_write" /\ last'.s = s /\ last'.result = "Ok") =>
              /\ Len(sets'[s].resources_buffers) =
                   Len(sets[s].resources_buffers) + CountWrites(last'.write, IsBufferKind)
              /\ Len(sets'[s].resources_samplers) =
                   Len(sets[s].resources_samplers) + CountWrites(last'.write, IsSamplerKind)
              /\ Len(sets'[s].resources_image_views) =
                   Len(sets[s].resources_image_views)
                     + CountWrites(last'.write, IsImageViewKind)]_vars

\* a binding was overwritten with the buffer it already held: both are kept
C16_Witness ==
  /\ last.op = "unchecked_write"
  /\ last.result = "Ok"
  /\ Len(last.write) = 1
  /\ Len(applied[last.s]) = 2
  /\ applied[last.s][1] = applied[last.s][2]
  /\ sets[last.s].resources_buffers = <<2, 2>>

(***************************************************************************)
(* C20: when new has allocated a set and its initial batch aborts, the     *)
(* native set is freed to its pool exactly once and the caller gets no set.*)
(***************************************************************************)
C20_NewAborted ==
  /\ last.op = "new"
  /\ last.result = "panic"
  /\ \E i \in DOMAIN AllocateCalls : AllocateCalls[i].outcome = "SUCCESS"

C20_AbortedNewFreesSet ==
  /\ C20_NewAborted =>
       /\ sets[last.s].status = "dropped"
       /\ Len(FreeCalls) = 1
       /\ FreeCalls[1].pDescriptorSets = SetHandle(last.s)
       /\ FreeCalls[1].descriptorPool = PoolHandle(last.pool)
       /\ Len(UpdateCalls) = 0
       /\ calls[1].fn = "AllocateDescriptorSets"
       /\ calls[2].fn = "FreeDescriptorSets"
  /\ \A s \in SetIds :
       sets[s].status = "dropped" => (allocs[SetHandle(s)] = 1 /\ frees[SetHandle(s)] = 1)

\* new allocated a set and its one-entry initial batch aborted
C20_Witness == C20_NewAborted /\ Len(last.write) = 1 /\ frees[SetHandle(last.s)] = 1

(***************************************************************************)
(* C11: writing the same batch, of buffer and image kinds in any order, a  *)
(* second time to the same set hands the driver a batch equal to the first *)
(* in every field (number of records, binding, array element, kind,        *)
(* payloads), whatever the first derivation left in the tracking           *)
(* collections.                                                            *)
(***************************************************************************)
C11_SameInputSameBatch ==
  [][(/\ last.op = "unchecked_write"
      /\ last.result = "Ok"
      /\ last'.op = "unchecked_write"
      /\ last'.s = last.s
      /\ last'.write = last.write)
     => /\ last'.result = "Ok"
        /\ calls' = calls]_vars

\* a batch of a buffer write and an image write has been derived twice
C11_Witness ==
  /\ last.op = "unchecked_write"
  /\ last.result = "Ok"
  /\ Len(last.write) = 2
  /\ \E i, j \in DOMAIN last.write :
       IsBufferKind(last.write[i].content) /\ ~IsBufferKind(last.write[j].content)
  /\ applied[last.s] = last.write \o last.write
  /\ Len(sets[last.s].resources_buffers) = 2
  /\ Len(UpdateCalls) = 1

(***************************************************************************)
(* C14: a batch is not atomic.  When an image-kind write fails its check,  *)
(* the buffers of all buffer-kind writes of the batch, also those after    *)
(* the failing write, have been appended, with the samplers and image      *)
(* views of the image-kind writes before the failing one.  When a          *)
(* buffer-kind write fails, only the buffers of the buffer-kind writes     *)
(* before it have been appended and the sampler and image-view collections *)
(* are unchanged.  In both cases there is no native update call.           *)
(***************************************************************************)
FailingBufferWrites(write) ==
  {i \in DOMAIN write : IsBufferKind(write[i].content) /\ ~HasCapability(write[i].content)}
FailingImageWrites(write) ==
  {i \in DOMAIN write : ~IsBufferKind(write[i].content) /\ ~HasCapability(write[i].content)}

First(S) == CHOOSE i \in S : \A j \in S : i <= j

\* the resources that the first n writes of a batch name, in batch order
BuffersOf(write, n) ==
  LET sel == SelectSeq(SubSeq(write, 1, n), LAMBDA w : IsBufferKind(w.content))
  IN  [k \in DOMAIN sel |-> sel[k].content.buffer]
SamplersOf(write, n) ==
  LET sel == SelectSeq(SubSeq(write, 1, n), LAMBDA w : IsSamplerKind(w.content))
  IN  [k \in DOMAIN sel |-> sel[k].content.sampler]
ImageViewsOf(write, n) ==
  LET sel == SelectSeq(SubSeq(write, 1, n), LAMBDA w : IsImageViewKind(w.content))
  IN  [k \in DOMAIN sel |-> sel[k].content.image]

C14_BatchNotAtomic ==
  [][(last'.op = "unchecked_write" /\ last'.result = "panic") =>
       LET s == last'.s
           write == last'.write
       IN  /\ calls' = <<>>
           /\ descriptors' = descriptors
           /\ IF FailingBufferWrites(write) # {}
              THEN /\ sets'[s].resources_buffers =
                        sets[s].resources_buffers
                          \o BuffersOf(write, First(FailingBufferWrites(write)) - 1)
                   /\ sets'[s].resources_samplers = sets[s].resources_samplers
                   /\ sets'[s].resources_image_views = sets[s].resources_image_views
              ELSE /\ FailingImageWrites(write) # {}
                   /\ sets'[s].resources_buffers =
                        sets[s].resources_buffers \o BuffersOf(write, Len(write))
                   /\ sets'[s].resources_samplers =
                        sets[s].resources_samplers
                          \o SamplersOf(write, First(FailingImageWrites(write)) - 1)
                   /\ sets'[s].resources_image_views =
                        sets[s].resources_image_views
                          \o ImageViewsOf(write, First(FailingImageWrites(write)) - 1)]_vars

\* [sampler write, failing image write, buffer write] has aborted on a fresh
\* set: the sampler and the buffer that comes after the failure are recorded
C14_Witness ==
  /\ last.op = "unchecked_write"
  /\ last.result = "panic"
  /\ Len(last.write) = 3
  /\ entries[last.s] = 3
  /\ last.write[1].content.kind = "Sampler"
  /\ last.write[2].content.kind = "StorageImage"
  /\ last.write[3].content.kind = "UniformBuffer"
  /\ sets[last.s].resources_buffers = <<1>>
  /\ sets[last.s].resources_samplers = <<2>>
  /\ sets[last.s].resources_image_views = <<>>

(***************************************************************************)
(* C13: creating a layout issues one native create-layout call whose       *)
(* binding records are the schema entries, one record per entry and in     *)
(* schema order: the i-th record has the i-th entry's binding index, kind, *)
(* array count and stage mask, and no immutable samplers.                  *)
(***************************************************************************)
C13_LayoutCreated == last.op = "descriptor_set_layout_new"

C13_OneBindingPerSchemaEntry ==
  C13_LayoutCreated =>
    /\ Len(calls) = 1
    /\ calls[1].fn = "CreateDescriptorSetLayout"
    /\ calls[1].flags = 0
    /\ calls[1].bindingCount = Len(last.arg)
    /\ Len(calls[1].pBindings) = Len(last.arg)
    /\ \A i \in DOMAIN last.arg :
         LET rec == calls[1].pBindings[i]
             desc == last.arg[i]
         IN  /\ rec.binding = desc.binding
             /\ rec.descriptorType = (IF desc.ty = "UniformBuffer" THEN 6 ELSE 1)
             /\ rec.descriptorCount = desc.array_count
             /\ rec.stageFlags = (IF "fragment" \in desc.stages THEN 17 ELSE 1)
             /\ rec.pImmutableSamplers = NullPtr
    /\ \A i, j \in DOMAIN last.arg :
         calls[1].pBindings[i].binding = calls[1].pBindings[j].binding => i = j

\* a layout was created from a schema that lists binding 1 before binding 0
C13_Witness ==
  /\ C13_LayoutCreated
  /\ last.result = "Ok"
  /\ Len(last.arg) = 2
  /\ last.arg[1].binding = 1
  /\ layouts[last.layout].status = "live"
  /\ layouts[last.layout].description = last.arg

(***************************************************************************)
(* C17: PipelineLayout::new issues one native create-pipeline-layout call  *)
(* with the handles of the decoded layouts, one per layout and in decoded  *)
(* order, and no push-constant ranges; when the call fails it returns an   *)
(* out-of-memory error and creates no object; when it succeeds the object  *)
(* holds a shared reference to every decoded layout.                       *)
(***************************************************************************)
Occurrences(seq, x) == Cardinality({i \in DOMAIN seq : seq[i] = x})

C17_PipelineLayoutCreation ==
  [][last'.op = "pipeline_layout_new" =>
       LET set_layouts == last'.arg
           pl == last'.pl
       IN  /\ Len(calls') = 1
           /\ calls'[1].fn = "CreatePipelineLayout"
           /\ calls'[1].setLayoutCount = Len(set_layouts)
           /\ Len(calls'[1].pSetLayouts) = Len(set_layouts)
           /\ \A i \in DOMAIN set_layouts :
                calls'[1].pSetLayouts[i] = layouts[set_layouts[i]].layout
           /\ calls'[1].pushConstantRangeCount = 0
           /\ calls'[1].pPushConstantRanges = NullPtr
           /\ IF calls'[1].outcome = "SUCCESS"
              THEN /\ last'.result = "Ok"
                   /\ pipeline_layouts'[pl].status = "live"
                   /\ pipeline_layouts'[pl].layout = calls'[1].output
                   /\ pipeline_layouts'[pl].layouts = set_layouts
                   /\ \A l \in Layouts :
                        layout_strong'[l] = layout_strong[l] + Occurrences(set_layouts, l)
              ELSE /\ last'.result = "OomError"
                   /\ pipeline_layouts'[pl].status = "failed"
                   /\ layout_strong' = layout_strong]_vars

\* a pipeline layout was created over layout 2 followed by layout 1
C17_Witness ==
  /\ last.op = "pipeline_layout_new"
  /\ last.result = "Ok"
  /\ last.arg = <<2, 1>>
  /\ pipeline_layouts[last.pl].status = "live"
  /\ calls[1].pSetLayouts = <<LayoutHandle(2), LayoutHandle(1)>>

(***************************************************************************)
(* C18: the native handle of a DescriptorSetLayout is destroyed exactly    *)
(* once, when its last owner drops it, and never while a DescriptorSet     *)
(* allocated against the layout or a PipelineLayout that aggregates it is  *)
(* alive.                                                                  *)
(***************************************************************************)
LayoutInUse(l) ==
  \/ l \in user_layouts
  \/ \E s \in SetIds : sets[s].status = "live" /\ sets[s].layout = l
  \/ \E pl \in PipelineLayoutIds :
       /\ pipeline_layouts[pl].status = "live"
       /\ \E i \in DOMAIN pipeline_layouts[pl].layouts : pipeline_layouts[pl].layouts[i] = l

C18_LayoutDestroyedOnce ==
  \A l \in Layouts :
    layouts[l].status \in {"live", "destroyed"} =>
      /\ layout_destroys[layouts[l].layout] <= 1
      /\ layout_destroys[layouts[l].layout] = 1 <=> layouts[l].status = "destroyed"
      /\ layouts[l].status = "destroyed" <=> ~LayoutInUse(l)

(***************************************************************************)
(* C19: every native object is destroyed by the destroy call of its own    *)
(* kind: dropping a PipelineLayout issues exactly one native               *)
(* destroy-pipeline-layout call on its handle, and the native              *)
(* destroy-descriptor-set-layout call is only ever handed handles that     *)
(* create-descriptor-set-layout returned.                                  *)
(***************************************************************************)
C19_DestroyedByOwnKind ==
  /\ last.op = "pipeline_layout_drop" =>
       Cardinality({i \in DOMAIN calls :
                      /\ calls[i].fn = "DestroyPipelineLayout"
                      /\ calls[i].pipelineLayout = pipeline_layouts[last.pl].layout}) = 1
  /\ \A h \in DestroyedHandles : layout_destroys[h] > 0 => h \in layout_created

====
